---- MODULE Spec2Model ----
(***************************************************************************)
(* Model of the childcare companion's data layer and retrieval pipeline    *)
(* (src/utils.py): the child store, the diary store, the embedding         *)
(* metadata store, the persisted FAISS index, the child-scoped similarity  *)
(* search, the age computation and the advice composer.                    *)
(*                                                                         *)
(* Stores are JSON files holding lists, modelled as sequences of records.  *)
(* uuid4 identifiers are modelled as fresh integers taken from counters.   *)
(* Embedding vectors are modelled as integer pairs; the embedding model is *)
(* a fixed table from text to vector, and each call to it may fail.        *)
(***************************************************************************)
EXTENDS Integers, Sequences, FiniteSets, TLC

VARIABLES
    children,     \* data/children.json: sequence of child records
    diaries,      \* data/diaries.json: sequence of diary records
    metadata,     \* data/embeddings_metadata.json: sequence of {diary_id, embedding}
    index,        \* data/embeddings.faiss: the vectors of the persisted index, <<>> when no file exists
    nextChild,    \* number of child identifiers issued so far
    nextDiary,    \* number of diary identifiers issued so far
    deleted,      \* history: diary identifiers passed to delete_diary
    calls,        \* the add_diary calls running side by side: position and local variables
    last          \* history: the last operation, its inputs and what it returned

vars == <<children, diaries, metadata, index, nextChild, nextDiary, deleted, calls, last>>

----------------------------------------------------------------------------
(* Bounds of the model *)

MaxChildren == 2
MaxDiaries == 2
MaxK == 3

Texts == {"ta", "tb"}            \* diary contents and questions
Names == {"Hana"}
NotesValues == {"", "allergy"}
DiaryDates == {"2024-03-01"}

ChildIds == 1..MaxChildren
DiaryIds == 1..MaxDiaries

----------------------------------------------------------------------------
(* Program constants *)

RAG_TOP_K == 5

NoDiaryMarker == "NO_RELATED_DIARY"       \* utils.py:364
ChildNotFound == "CHILD_NOT_FOUND"        \* utils.py:349
ErrorPrefix == "ADVICE_ERROR"             \* utils.py:389
NotesPlaceholder == "NOTHING_SPECIAL"     \* utils.py:371

----------------------------------------------------------------------------
(* Generic helpers *)

Max(a, b) == IF a >= b THEN a ELSE b
Min(a, b) == IF a <= b THEN a ELSE b

----------------------------------------------------------------------------
(* Dates: the fields datetime.date exposes *)

Date(y, m, d) == [y |-> y, m |-> m, d |-> d]

\* birth dates add_child is given and the current date in the store model
BirthDates == {Date(2023, 1, 15)}
Todays == {Date(2024, 3, 10)}

\* the dates the age computation is explored over
AgeYears == 2023..2024
AgeDays == {1, 10, 15, 20, 28}
AgeDates == {Date(y, m, d) : y \in AgeYears, m \in 1..12, d \in AgeDays}

----------------------------------------------------------------------------
(* Age computation *)

\* mutant of CalculateAgeMonths: the birthday itself counts as not yet reached
CalculateAgeMonths_DayInclusive(birth_date, today) ==
    LET months == (today.y - birth_date.y) * 12 + (today.m - birth_date.m)
        adjusted == IF today.d <= birth_date.d THEN months - 1 ELSE months
    IN  Max(0, adjusted)

\* calculate_age_months, with date.today() passed in as today
CalculateAgeMonths(birth_date, today) ==
    LET months == (today.y - birth_date.y) * 12 + (today.m - birth_date.m)
        adjusted == IF today.d < birth_date.d THEN months - 1 ELSE months
    IN  Max(0, adjusted)

\* format_age_display: the text as its pieces, a number then its unit
FormatAgeDisplay(months) ==
    LET years == months \div 12
        remaining_months == months % 12
    IN  IF years = 0 THEN <<ToString(remaining_months), "kagetsu">>
        ELSE IF remaining_months = 0 THEN <<ToString(years), "sai">>
        ELSE <<ToString(years), "sai", ToString(remaining_months), "kagetsu">>

----------------------------------------------------------------------------
(* Embedding model and FAISS *)

\* the external embedding model: a fixed vector per text
Embed(text) ==
    CASE text = "ta" -> <<0, 0>>
      [] text = "tb" -> <<2, 1>>
      [] OTHER -> <<1, 3>>

\* create_embedding: the vector, or [] when the call raised
CreateEmbedding(text, embOk) == IF embOk THEN Embed(text) ELSE <<>>

RECURSIVE SumSq(_, _, _)
SumSq(u, v, i) ==
    IF i = 0 THEN 0 ELSE (u[i] - v[i]) * (u[i] - v[i]) + SumSq(u, v, i - 1)

\* squared Euclidean distance, the metric of faiss.IndexFlatL2
Dist2(u, v) == SumSq(u, v, Len(u))

\* mutant of FaissSearch: the first k vectors in insertion order
FaissSearch_InsertionOrder(vectors, query_vec, k) == [r \in 1..k |-> r]

\* IndexFlatL2.search over the added vectors: the positions (1-based here) of
\* the k nearest vectors, nearest first; equal distances keep insertion order
FaissSearch(vectors, query_vec, k) ==
    LET n == Len(vectors)
        Closer(i, j) ==
            \/ Dist2(vectors[i], query_vec) < Dist2(vectors[j], query_vec)
            \/ /\ Dist2(vectors[i], query_vec) = Dist2(vectors[j], query_vec)
               /\ i < j
        Rank(i) == Cardinality({j \in 1..n : Closer(j, i)}) + 1
    IN  [r \in 1..k |-> CHOOSE i \in 1..n : Rank(i) = r]

\* mutant of RebuildFaissIndex: the last record is left out of the index
RebuildFaissIndex_DropsLast(md, idx, faissOk) ==
    IF ~faissOk THEN [index |-> idx, outcome |-> "failed"]
    ELSE IF md = <<>> THEN [index |-> idx, outcome |-> "empty"]
    ELSE [index |-> [i \in 1..(Len(md) - 1) |-> md[i].embedding], outcome |-> "written"]

\* rebuild_faiss_index: the persisted index afterwards and how the call ended
RebuildFaissIndex(md, idx, faissOk) ==
    IF ~faissOk THEN [index |-> idx, outcome |-> "failed"]
    ELSE IF md = <<>> THEN [index |-> idx, outcome |-> "empty"]
    ELSE [index |-> [i \in 1..Len(md) |-> md[i].embedding], outcome |-> "written"]

\* mutant of UpsertRecord: always append
UpsertRecord_AlwaysAppend(md, diary_id, embedding) ==
    Append(md, [diary_id |-> diary_id, embedding |-> embedding])

\* the upsert of update_diary_embedding: replace the first record of diary_id, else append
UpsertRecord(md, diary_id, embedding) ==
    LET hits == {i \in 1..Len(md) : md[i].diary_id = diary_id}
    IN  IF hits # {}
        THEN LET first == CHOOSE i \in hits : \A j \in hits : i <= j
             IN  [md EXCEPT ![first].embedding = embedding]
        ELSE Append(md, [diary_id |-> diary_id, embedding |-> embedding])

\* mutant of UpdateDiaryEmbedding: no early return on an empty embedding
UpdateDiaryEmbedding_NoGuard(md, idx, diary_id, content, embOk, faissOk) ==
    LET md2 == UpsertRecord(md, diary_id, CreateEmbedding(content, embOk))
        rb == RebuildFaissIndex(md2, idx, faissOk)
    IN  [metadata |-> md2, index |-> rb.index,
         rebuild |-> IF embOk THEN rb.outcome ELSE "none"]

\* update_diary_embedding: the metadata store and index afterwards
UpdateDiaryEmbedding(md, idx, diary_id, content, embOk, faissOk) ==
    LET embedding == CreateEmbedding(content, embOk)
    IN  IF embedding = <<>>
        THEN [metadata |-> md, index |-> idx, rebuild |-> "none"]
        ELSE LET md2 == UpsertRecord(md, diary_id, embedding)
                 rb == RebuildFaissIndex(md2, idx, faissOk)
             IN  [metadata |-> md2, index |-> rb.index, rebuild |-> rb.outcome]

----------------------------------------------------------------------------
(* Similarity search *)

\* mutant of ChildDiaries: no filter on the child
ChildDiaries_Unfiltered(ds, child_id) == ds

\* the diaries of one child, in store order (search_similar_diaries line 303)
ChildDiaries(ds, child_id) == SelectSeq(ds, LAMBDA d : child_id \in d.child_ids)

\* the records whose diary is among child_diaries (line 307)
FilteredMetadata(md, child_diaries) ==
    SelectSeq(md, LAMBDA m : \E i \in 1..Len(child_diaries) :
                                 child_diaries[i].diary_id = m.diary_id)

\* lines 324-330: index hits back to diaries, in the order of the hits
RECURSIVE MapHits(_, _, _)
MapHits(hits, filtered_metadata, child_diaries) ==
    IF hits = <<>> THEN <<>>
    ELSE LET diary_id == filtered_metadata[Head(hits)].diary_id
             found == {i \in 1..Len(child_diaries) :
                           child_diaries[i].diary_id = diary_id}
             rest == MapHits(Tail(hits), filtered_metadata, child_diaries)
         IN  IF found = {} THEN rest
             ELSE <<child_diaries[CHOOSE i \in found : \A j \in found : i <= j]>>
                  \o rest

\* search_similar_diaries over the stores ds and md
SearchSimilarDiaries(ds, md, query, child_id, top_k, embOk, faissOk) ==
    LET query_embedding == CreateEmbedding(query, embOk)
        child_diaries == ChildDiaries(ds, child_id)
        filtered_metadata == FilteredMetadata(md, child_diaries)
        k == Min(top_k, Len(filtered_metadata))
    IN  IF ~faissOk THEN <<>>
        ELSE IF query_embedding = <<>> THEN <<>>
        ELSE IF md = <<>> THEN <<>>
        ELSE IF filtered_metadata = <<>> THEN <<>>
        ELSE IF k <= 0 THEN <<>>
        ELSE MapHits(FaissSearch([i \in 1..Len(filtered_metadata) |->
                                      filtered_metadata[i].embedding],
                                 query_embedding, k),
                     filtered_metadata, child_diaries)

----------------------------------------------------------------------------
(* Advice composer *)

\* get_child_by_id: the first child with that id, as a sequence of 0 or 1 records
GetChildById(cs, child_id) ==
    LET hits == {i \in 1..Len(cs) : cs[i].child_id = child_id}
    IN  IF hits = {} THEN <<>>
        ELSE <<cs[CHOOSE i \in hits : \A j \in hits : i <= j]>>

\* lines 359-364: the context block, one numbered section per diary, or the marker
RECURSIVE DiarySections(_, _)
DiarySections(similar_diaries, i) ==
    IF i > Len(similar_diaries) THEN <<>>
    ELSE <<"DIARY", ToString(i), similar_diaries[i].date, similar_diaries[i].content>>
         \o DiarySections(similar_diaries, i + 1)

\* mutant of DiaryContext: no marker for an empty result
DiaryContext_NoMarker(similar_diaries) == DiarySections(similar_diaries, 1)

DiaryContext(similar_diaries) ==
    IF similar_diaries # <<>> THEN DiarySections(similar_diaries, 1)
    ELSE <<NoDiaryMarker>>

\* child.get("notes", placeholder): the default applies only when the key is missing
ChildNotes(child) ==
    IF "notes" \in DOMAIN child THEN child.notes ELSE NotesPlaceholder

\* what the generation model may do with a prompt: answer (echoing the
\* context block or not) or raise
GenOutcomes ==
    {[ok |-> TRUE, text |-> <<"ADVICE">>],
     [ok |-> TRUE, text |-> <<"ADVICE", NoDiaryMarker>>],
     [ok |-> FALSE, text |-> <<"generation failed">>]}

\* generate_advice: the returned text, the user prompt sent to the generation
\* model (<<>> when none was sent) and whether an exception left the function
GenerateAdvice(cs, ds, md, question, child_id, today, embOk, faissOk, gen) ==
    LET found == GetChildById(cs, child_id)
    IN  IF found = <<>>
        THEN [ret |-> <<ChildNotFound>>, prompt |-> <<>>, raised |-> FALSE]
        ELSE LET child == found[1]
                 age_months == CalculateAgeMonths(child.birth_date, today)
                 age_display == FormatAgeDisplay(age_months)
                 similar_diaries ==
                     SearchSimilarDiaries(ds, md, question, child_id, RAG_TOP_K,
                                          embOk, faissOk)
                 user_prompt ==
                     [child_name |-> child.name,
                      age_months |-> age_months,
                      age_display |-> age_display,
                      notes |-> ChildNotes(child),
                      diary_context |-> DiaryContext(similar_diaries),
                      question |-> question]
             IN  IF gen.ok
                 THEN [ret |-> gen.text, prompt |-> <<user_prompt>>, raised |-> FALSE]
                 ELSE [ret |-> <<ErrorPrefix>> \o gen.text,
                       prompt |-> <<user_prompt>>, raised |-> FALSE]

----------------------------------------------------------------------------
(* State machine *)

\* the callers whose add_diary calls may interleave (one Streamlit session each)
Procs == {1, 2}

\* a call that has not started: no position, nothing loaded
IdleCall ==
    [pc |-> "idle", diary |-> <<>>, diaries |-> <<>>, emb |-> FALSE,
     embedding |-> <<>>, metadata |-> <<>>, rebuild_metadata |-> <<>>]

NoCalls == [p \in Procs |-> IdleCall]

NoOp ==
    [op |-> "init", id |-> 0, emb |-> FALSE, rebuild |-> "none"]

\* initialize_app: the three JSON stores hold [], no index file exists
Init ==
    /\ children = <<>>
    /\ diaries = <<>>
    /\ metadata = <<>>
    /\ index = <<>>
    /\ nextChild = 0
    /\ nextDiary = 0
    /\ deleted = {}
    /\ calls = NoCalls
    /\ last = NoOp

add_child(name, birth_date, notes) ==
    /\ nextChild < MaxChildren
    /\ nextChild' = nextChild + 1
    /\ children' = Append(children, [child_id |-> nextChild + 1, name |-> name,
                                     birth_date |-> birth_date, notes |-> notes])
    /\ last' = [NoOp EXCEPT !.op = "add_child"]
    /\ UNCHANGED <<diaries, metadata, index, nextDiary, deleted, calls>>

delete_child(child_id) ==
    /\ children' = SelectSeq(children, LAMBDA c : c.child_id # child_id)
    /\ diaries' = SelectSeq(diaries, LAMBDA d : child_id \notin d.child_ids)
    /\ last' = [NoOp EXCEPT !.op = "delete_child"]
    /\ UNCHANGED <<metadata, index, nextChild, nextDiary, deleted, calls>>

add_diary(child_ids, date_str, content, embOk, faissOk) ==
    /\ nextDiary < MaxDiaries
    /\ LET diary == [diary_id |-> nextDiary + 1, child_ids |-> child_ids,
                     date |-> date_str, content |-> content]
           e == UpdateDiaryEmbedding(metadata, index, diary.diary_id, content,
                                     embOk, faissOk)
       IN  /\ diaries' = Append(diaries, diary)
           /\ metadata' = e.metadata
           /\ index' = e.index
           /\ last' = [NoOp EXCEPT !.op = "add_diary", !.id = diary.diary_id,
                                   !.emb = embOk, !.rebuild = e.rebuild]
    /\ nextDiary' = nextDiary + 1
    /\ UNCHANGED <<children, nextChild, deleted, calls>>

\* lines 187-192: the first diary with that id gets the new fields
UpdatedDiaries(ds, diary_id, child_ids, date_str, content) ==
    LET hits == {i \in 1..Len(ds) : ds[i].diary_id = diary_id}
    IN  IF hits = {} THEN ds
        ELSE LET first == CHOOSE i \in hits : \A j \in hits : i <= j
             IN  [ds EXCEPT ![first] = [diary_id |-> diary_id, child_ids |-> child_ids,
                                        date |-> date_str, content |-> content]]

update_diary(diary_id, child_ids, date_str, content, embOk, faissOk) ==
    /\ LET e == UpdateDiaryEmbedding(metadata, index, diary_id, content,
                                     embOk, faissOk)
       IN  /\ diaries' = UpdatedDiaries(diaries, diary_id, child_ids, date_str, content)
           /\ metadata' = e.metadata
           /\ index' = e.index
           /\ last' = [NoOp EXCEPT !.op = "update_diary",
                                   !.emb = embOk, !.rebuild = e.rebuild]
    /\ UNCHANGED <<children, nextChild, nextDiary, deleted, calls>>

\* mutant of RemoveRecord: the metadata store is left as it is
RemoveRecord_Keeps(md, diary_id) == md

\* lines 207-209 of delete_diary: the metadata store without the diary's records
RemoveRecord(md, diary_id) == SelectSeq(md, LAMBDA m : m.diary_id # diary_id)

delete_diary(diary_id, faissOk) ==
    /\ diaries' = SelectSeq(diaries, LAMBDA d : d.diary_id # diary_id)
    /\ LET md2 == RemoveRecord(metadata, diary_id)
           rb == RebuildFaissIndex(md2, index, faissOk)
       IN  /\ metadata' = md2
           /\ index' = rb.index
           /\ last' = [NoOp EXCEPT !.op = "delete_diary", !.id = diary_id,
                                   !.rebuild = rb.outcome]
    /\ deleted' = deleted \cup {diary_id}
    /\ UNCHANGED <<children, nextChild, nextDiary, calls>>

\* identifiers are uuid4 values: a caller can only name ones that were issued
IssuedChildren == 1..nextChild
IssuedDiaries == 1..nextDiary

\* the children a diary form can name: at least one (components.py line 143)
ChildIdSets == SUBSET IssuedChildren \ {{}}

Next ==
    \/ \E name \in Names, birth_date \in BirthDates, notes \in NotesValues :
           add_child(name, birth_date, notes)
    \/ \E child_id \in IssuedChildren : delete_child(child_id)
    \/ \E child_ids \in ChildIdSets, date_str \in DiaryDates,
          content \in Texts, embOk \in BOOLEAN, faissOk \in BOOLEAN :
           add_diary(child_ids, date_str, content, embOk, faissOk)
    \/ \E diary_id \in IssuedDiaries, child_ids \in ChildIdSets,
          date_str \in DiaryDates, content \in Texts,
          embOk \in BOOLEAN, faissOk \in BOOLEAN :
           update_diary(diary_id, child_ids, date_str, content, embOk, faissOk)
    \/ \E diary_id \in IssuedDiaries, faissOk \in BOOLEAN :
           delete_diary(diary_id, faissOk)

Spec == Init /\ [][Next]_vars

----------------------------------------------------------------------------
(* The age computation on its own: Init draws a birth date and a current    *)
(* date, the actions apply calculate_age_months and format_age_display.     *)

InitAge ==
    /\ children = <<>>
    /\ diaries = <<>>
    /\ metadata = <<>>
    /\ index = <<>>
    /\ nextChild = 0
    /\ nextDiary = 0
    /\ deleted = {}
    /\ calls = NoCalls
    /\ \E birth_date \in AgeDates, today \in AgeDates :
           last = [op |-> "dates", birth_date |-> birth_date, today |-> today,
                   months |-> 0, display |-> <<>>]

calculate_age_months ==
    /\ last.op = "dates"
    /\ last' = [last EXCEPT !.op = "calculate_age_months",
                            !.months = CalculateAgeMonths(last.birth_date, last.today)]
    /\ UNCHANGED <<children, diaries, metadata, index, nextChild, nextDiary, deleted, calls>>

format_age_display ==
    /\ last.op = "calculate_age_months"
    /\ last' = [last EXCEPT !.op = "format_age_display",
                            !.display = FormatAgeDisplay(last.months)]
    /\ UNCHANGED <<children, diaries, metadata, index, nextChild, nextDiary, deleted, calls>>

NextAge == calculate_age_months \/ format_age_display

SpecAge == InitAge /\ [][NextAge]_vars

----------------------------------------------------------------------------
(* Two add_diary calls side by side. Each call runs the statements of       *)
(* add_diary, update_diary_embedding and rebuild_faiss_index in order; a     *)
(* step is one load or one save of a whole file, and nothing orders the     *)
(* steps of one call against those of the other.                            *)

\* mutant of SaveDiaries: entries of the file that the caller's list lacks are kept
SaveDiaries_Merge(file, local) ==
    SelectSeq(file, LAMBDA d : \A i \in 1..Len(local) : local[i].diary_id # d.diary_id)
        \o local

\* save_diaries: json.dump of the caller's whole list over the file
SaveDiaries(file, local) == local

\* save_embeddings_metadata: json.dump of the caller's whole list over the file
SaveEmbeddingsMetadata(file, local) == local

\* a reachable state of Spec to start the calls from: one child, no diary
InitRace ==
    /\ children = <<[child_id |-> 1, name |-> "Hana",
                     birth_date |-> Date(2023, 1, 15), notes |-> ""]>>
    /\ diaries = <<>>
    /\ metadata = <<>>
    /\ index = <<>>
    /\ nextChild = 1
    /\ nextDiary = 0
    /\ deleted = {}
    /\ calls = NoCalls
    /\ last = NoOp

\* add_diary lines 165-172: load the diary file, build the new diary
race_load_diaries(p, child_ids, date_str, content) ==
    /\ calls[p].pc = "idle"
    /\ calls' = [calls EXCEPT ![p].pc = "save_diaries",
                              ![p].diaries = diaries,
                              ![p].diary = <<[diary_id |-> nextDiary + 1,
                                              child_ids |-> child_ids,
                                              date |-> date_str,
                                              content |-> content]>>]
    /\ nextDiary' = nextDiary + 1
    /\ UNCHANGED <<children, diaries, metadata, index, nextChild, deleted, last>>

\* add_diary lines 174-175: append to the loaded list, save it
race_save_diaries(p) ==
    /\ calls[p].pc = "save_diaries"
    /\ diaries' = SaveDiaries(diaries, calls[p].diaries \o calls[p].diary)
    /\ calls' = [calls EXCEPT ![p].pc = "create_embedding"]
    /\ UNCHANGED <<children, metadata, index, nextChild, nextDiary, deleted, last>>

\* update_diary_embedding lines 240-243: embed, return when nothing came back
race_create_embedding(p, embOk) ==
    /\ calls[p].pc = "create_embedding"
    /\ LET embedding == CreateEmbedding(calls[p].diary[1].content, embOk)
       IN  calls' = [calls EXCEPT ![p].pc = IF embedding = <<>> THEN "done"
                                            ELSE "load_metadata",
                                  ![p].emb = embedding # <<>>,
                                  ![p].embedding = embedding]
    /\ UNCHANGED <<children, diaries, metadata, index, nextChild, nextDiary,
                   deleted, last>>

\* update_diary_embedding line 245: load the metadata file
race_load_metadata(p) ==
    /\ calls[p].pc = "load_metadata"
    /\ calls' = [calls EXCEPT ![p].pc = "save_metadata", ![p].metadata = metadata]
    /\ UNCHANGED <<children, diaries, metadata, index, nextChild, nextDiary,
                   deleted, last>>

\* update_diary_embedding lines 247-261: upsert in the loaded list, save it
race_save_metadata(p) ==
    /\ calls[p].pc = "save_metadata"
    /\ metadata' = SaveEmbeddingsMetadata(metadata,
                        UpsertRecord(calls[p].metadata, calls[p].diary[1].diary_id,
                                     calls[p].embedding))
    /\ calls' = [calls EXCEPT ![p].pc = "rebuild_load"]
    /\ UNCHANGED <<children, diaries, index, nextChild, nextDiary, deleted, last>>

\* rebuild_faiss_index line 270: load the metadata file again
race_rebuild_load(p) ==
    /\ calls[p].pc = "rebuild_load"
    /\ calls' = [calls EXCEPT ![p].pc = "rebuild_write",
                              ![p].rebuild_metadata = metadata]
    /\ UNCHANGED <<children, diaries, metadata, index, nextChild, nextDiary,
                   deleted, last>>

\* rebuild_faiss_index lines 272-283: build from the loaded records, write the
\* index; then update_diary_embedding and add_diary return
race_rebuild_write(p, faissOk) ==
    /\ calls[p].pc = "rebuild_write"
    /\ index' = RebuildFaissIndex(calls[p].rebuild_metadata, index, faissOk).index
    /\ calls' = [calls EXCEPT ![p].pc = "done"]
    /\ UNCHANGED <<children, diaries, metadata, nextChild, nextDiary, deleted, last>>

NextRace ==
    \E p \in Procs :
        \/ \E child_ids \in ChildIdSets, date_str \in DiaryDates, content \in Texts :
               race_load_diaries(p, child_ids, date_str, content)
        \/ race_save_diaries(p)
        \/ \E embOk \in BOOLEAN : race_create_embedding(p, embOk)
        \/ race_load_metadata(p)
        \/ race_save_metadata(p)
        \/ race_rebuild_load(p)
        \/ \E faissOk \in BOOLEAN : race_rebuild_write(p, faissOk)

SpecRace == InitRace /\ [][NextRace]_vars

----------------------------------------------------------------------------
(* Properties *)

\* the inputs a read-only call is tried with in every reachable state
TopKs == 0..MaxK
SearchInputs ==
    [query : Texts, child_id : ChildIds, top_k : TopKs, embOk : BOOLEAN,
     faissOk : BOOLEAN]
Search(a) ==
    SearchSimilarDiaries(diaries, metadata, a.query, a.child_id, a.top_k,
                         a.embOk, a.faissOk)

AdviceInputs ==
    [question : Texts, child_id : ChildIds, today : Todays, embOk : BOOLEAN,
     faissOk : BOOLEAN, gen : GenOutcomes]
Advice(a) ==
    GenerateAdvice(children, diaries, metadata, a.question, a.child_id, a.today,
                   a.embOk, a.faissOk, a.gen)

HasRecord(diary_id) == \E i \in 1..Len(metadata) : metadata[i].diary_id = diary_id
HasDiary(diary_id) == \E j \in 1..Len(diaries) : diaries[j].diary_id = diary_id
StoredVector(diary_id) ==
    metadata[CHOOSE i \in 1..Len(metadata) : metadata[i].diary_id = diary_id].embedding
VectorsOf(md) == [i \in 1..Len(md) |-> md[i].embedding]

\* C1: in every reachable state of the stores and for every query, child_id
\* and top_k, each diary search_similar_diaries returns is a diary of the
\* store whose child_ids contain child_id.
C1_SearchScopedToChild ==
    \A a \in SearchInputs :
        LET results == Search(a)
        IN  \A i \in 1..Len(results) :
                /\ a.child_id \in results[i].child_ids
                /\ \E j \in 1..Len(diaries) : diaries[j] = results[i]

\* C1 witness: update_diary has just run, a search returns a diary, and another
\* diary with a record belongs to other children only.
C1_Witness ==
    /\ last.op = "update_diary"
    /\ \E a \in SearchInputs :
           /\ Search(a) # <<>>
           /\ \E j \in 1..Len(diaries) :
                  /\ a.child_id \notin diaries[j].child_ids
                  /\ HasRecord(diaries[j].diary_id)

\* C2: once delete_diary(d) has run, the metadata store holds no record of d
\* right after it, and no search in any later state returns d.
C2_DeletedDiaryGone ==
    /\ last.op = "delete_diary" => ~HasRecord(last.id)
    /\ deleted # {}
          => \A a \in SearchInputs :
                 LET results == Search(a)
                 IN  \A i \in 1..Len(results) : results[i].diary_id \notin deleted

\* C2 witness: delete_diary has just run on one diary while a search still
\* returns another one.
C2_Witness ==
    /\ last.op = "delete_diary"
    /\ last.id \in deleted
    /\ \E a \in SearchInputs : Search(a) # <<>>

\* C3: every record of the metadata store belongs to a diary of the diary store.
C3_NoOrphanRecords ==
    \A i \in 1..Len(metadata) : HasDiary(metadata[i].diary_id)

\* C4: the vector of every record is the embedding of the content its diary
\* currently holds.
C4_RecordMatchesContent ==
    \A i \in 1..Len(metadata) :
        \A j \in 1..Len(diaries) :
            diaries[j].diary_id = metadata[i].diary_id
                => metadata[i].embedding = Embed(diaries[j].content)

\* C5: the metadata store holds at most one record per diary_id.
C5_OneRecordPerDiary ==
    \A i, j \in 1..Len(metadata) :
        metadata[i].diary_id = metadata[j].diary_id => i = j

\* C5 witness: an update_diary with a successful embedding has just run on a
\* store that holds two records.
C5_Witness ==
    /\ last.op = "update_diary"
    /\ last.emb
    /\ Len(metadata) = 2

\* C6 as claimed, for the invocations of rebuild_faiss_index that raise
\* nothing: after the invocation the persisted index holds exactly one entry
\* per record of the metadata store, whatever that store holds, so the counts
\* are equal.
C6_IndexMatchesAlways ==
    last.rebuild \in {"written", "empty"}
        => /\ Len(index) = Len(metadata)
           /\ index = VectorsOf(metadata)

\* C6 amended: a rebuild that finds records and raises nothing writes exactly
\* one entry per record, in store order; a rebuild that finds no record, or
\* raises, leaves the persisted index as it was.
C6_IndexMatchesWhenWritten ==
    [][/\ last'.rebuild = "written"
          => /\ metadata' # <<>>
             /\ index' = VectorsOf(metadata')
       /\ last'.rebuild = "empty" => (metadata' = <<>> /\ index' = index)
       /\ last'.rebuild = "failed" => index' = index]_vars

\* C6 witness: a delete_diary emptied the metadata store and an index with
\* entries is still persisted.
C6_Witness ==
    /\ last.op = "delete_diary"
    /\ last.rebuild = "empty"
    /\ index # <<>>

\* C7: an add_diary whose embedding call fails appends the diary, leaves no
\* record of it, and leaves the metadata store and the index unchanged.
C7_FailedEmbeddingKeepsDiary ==
    [][(last'.op = "add_diary" /\ ~last'.emb)
          => /\ Len(diaries') = Len(diaries) + 1
             /\ diaries'[Len(diaries')].diary_id = last'.id
             /\ \A i \in 1..Len(metadata') : metadata'[i].diary_id # last'.id
             /\ metadata' = metadata
             /\ index' = index]_vars

\* C7 witness: add_diary has just run with a failed embedding on stores that
\* already held a record and an index.
C7_Witness ==
    /\ last.op = "add_diary"
    /\ ~last.emb
    /\ HasDiary(last.id)
    /\ metadata # <<>>
    /\ index # <<>>

\* C8: consecutive results of a search are in non-decreasing squared
\* Euclidean distance from their stored vector to the query vector.
C8_NearestFirst ==
    \A a \in SearchInputs :
        LET results == Search(a)
        IN  \A i \in 1..(Len(results) - 1) :
                Dist2(StoredVector(results[i].diary_id), Embed(a.query))
                    <= Dist2(StoredVector(results[i + 1].diary_id), Embed(a.query))

\* C8 witness: a search returns two diaries in the reverse of their store
\* order, the first strictly nearer than the second.
C8_Witness ==
    \E a \in SearchInputs :
        LET results == Search(a)
        IN  /\ Len(results) = 2
            /\ results[1].diary_id > results[2].diary_id
            /\ Dist2(StoredVector(results[1].diary_id), Embed(a.query))
                   < Dist2(StoredVector(results[2].diary_id), Embed(a.query))

\* the formula of the claim for the age in months
ClaimedAge(birth_date, today) ==
    Max(0, (today.y - birth_date.y) * 12 + (today.m - birth_date.m)
           - (IF today.d < birth_date.d THEN 1 ELSE 0))

\* the rendering of the claim: months below one year, years on a remainder of
\* 0, years and months otherwise
ClaimedDisplay(months) ==
    IF months < 12 THEN <<ToString(months), "kagetsu">>
    ELSE IF months % 12 = 0 THEN <<ToString(months \div 12), "sai">>
    ELSE <<ToString(months \div 12), "sai", ToString(months % 12), "kagetsu">>

\* C9: calculate_age_months returns max(0, year and month difference, less 1
\* when the day of the month is not reached), never a negative number;
\* format_age_display renders it in the three forms; 2023-01-15 on 2024-03-10
\* is 13 months shown as 1 year 1 month, 2024-03-20 on 2024-03-10 is 0 months.
C9_AgeMonthsAndDisplay ==
    /\ last.op \in {"calculate_age_months", "format_age_display"}
          => /\ last.months = ClaimedAge(last.birth_date, last.today)
             /\ last.months >= 0
             /\ (last.birth_date = Date(2023, 1, 15) /\ last.today = Date(2024, 3, 10))
                    => last.months = 13
             /\ (last.birth_date = Date(2024, 3, 20) /\ last.today = Date(2024, 3, 10))
                    => last.months = 0
    /\ last.op = "format_age_display"
          => /\ last.display = ClaimedDisplay(last.months)
             /\ last.months = 13 => last.display = <<"1", "sai", "1", "kagetsu">>
             /\ last.months = 0 => last.display = <<"0", "kagetsu">>

\* C9 witness: the birth date lies after the current date, the difference is
\* clamped to 0 and rendered.
C9_Witness ==
    /\ last.op = "format_age_display"
    /\ last.birth_date = Date(2024, 3, 20)
    /\ last.today = Date(2024, 3, 10)
    /\ last.months = 0
    /\ last.display = <<"0", "kagetsu">>

\* the calls of generate_advice for a child of the store that has no diary
ZeroDiaryCalls ==
    {a \in AdviceInputs :
         /\ GetChildById(children, a.child_id) # <<>>
         /\ ChildDiaries(diaries, a.child_id) = <<>>}

Contains(text, piece) == \E i \in 1..Len(text) : text[i] = piece

\* C10 as claimed: for an existing child with no diary generate_advice does
\* not raise and the text it returns contains the "no related diary" marker.
C10_ReturnContainsMarker ==
    \A a \in ZeroDiaryCalls :
        LET advice == Advice(a)
        IN  /\ ~advice.raised
            /\ Contains(advice.ret, NoDiaryMarker)

\* C10 amended: for an existing child with no diary generate_advice does not
\* raise, the prompt it sends has the marker as its whole context block, and
\* it returns the generation model's text unmodified, or the error message
\* when the generation call fails.
C10_PromptContainsMarker ==
    \A a \in ZeroDiaryCalls :
        LET advice == Advice(a)
        IN  /\ ~advice.raised
            /\ Len(advice.prompt) = 1
            /\ advice.prompt[1].diary_context = <<NoDiaryMarker>>
            /\ advice.ret = IF a.gen.ok THEN a.gen.text
                             ELSE <<ErrorPrefix>> \o a.gen.text

\* C10 witness: a child of the store has no diary while another child's diary
\* has a record, and generate_advice is called for the first child.
C10_Witness ==
    /\ ZeroDiaryCalls # {}
    /\ \E j \in 1..Len(diaries) : HasRecord(diaries[j].diary_id)

\* the calls of generate_advice for a child of the store whose notes are empty
EmptyNotesCalls ==
    {a \in AdviceInputs :
         /\ GetChildById(children, a.child_id) # <<>>
         /\ GetChildById(children, a.child_id)[1].notes = ""}

\* C11: when generate_advice fills the prompt for a child whose notes are
\* empty, the notes slot holds the fixed placeholder and not the empty string.
C11_EmptyNotesGetPlaceholder ==
    \A a \in EmptyNotesCalls :
        LET advice == Advice(a)
        IN  /\ Len(advice.prompt) = 1
            /\ advice.prompt[1].notes = NotesPlaceholder
            /\ advice.prompt[1].notes # ""

\* the two calls have returned, each after a successful embedding
BothReturnedEmbedded ==
    \A p \in Procs : calls[p].pc = "done" /\ calls[p].emb

\* the calls whose diary is in the diary store, whose record is in the metadata store
DiariesKept == {p \in Procs : HasDiary(calls[p].diary[1].diary_id)}
RecordsKept == {p \in Procs : HasRecord(calls[p].diary[1].diary_id)}

\* C12: the writes of two concurrent add_diary calls are unsynchronised
\* load-then-save steps over the whole collection: once both calls have
\* returned (each with a successful embedding), a store holds the entry of
\* only one of them exactly when both calls loaded that store before either
\* saved it, and holds both entries otherwise; the witness is the interleaving
\* in which an update is lost.
C12_LostUpdateWhenInterleaved ==
    BothReturnedEmbedded
        => /\ calls[1].diaries = calls[2].diaries => Cardinality(DiariesKept) = 1
           /\ calls[1].diaries # calls[2].diaries => DiariesKept = Procs
           /\ calls[1].metadata = calls[2].metadata => Cardinality(RecordsKept) = 1
           /\ calls[1].metadata # calls[2].metadata => RecordsKept = Procs

\* C12 witness: both calls have returned after successful embeddings and the
\* diary store, or the metadata store, holds the entry of only one of them.
C12_Witness ==
    /\ BothReturnedEmbedded
    /\ \/ Cardinality(DiariesKept) = 1
       \/ Cardinality(RecordsKept) = 1

====
